---- MODULE Spec2Model ----
(***************************************************************************)
(* Model of dashboard.py, the Faculty Travel Survey dashboard script.      *)
(* The script runs top to bottom once per report generation: load the CSV, *)
(* compute the headline metrics, then emit five chart sections.            *)
(*                                                                         *)
(* Text is modelled as a sequence of one-character strings, a cell of the  *)
(* table as a record [na, s] (na = the pandas NaN of an empty CSV field),  *)
(* a float quotient as a record [num, den] (den = 0 stands for the NaN or  *)
(* inf that a division by zero produces).                                  *)
(***************************************************************************)
EXTENDS Integers, Sequences, FiniteSets, TLC

\* ------------------------------------------------------------------ bounds
MaxRows == 2

\* ------------------------------------------------------- text primitives
UpperCase == <<"A","B","C","D","E","F","G","H","I","J","K","L","M",
               "N","O","P","Q","R","S","T","U","V","W","X","Y","Z">>
LowerCase == <<"a","b","c","d","e","f","g","h","i","j","k","l","m",
               "n","o","p","q","r","s","t","u","v","w","x","y","z">>
Whitespace == {" ", "\t"}

Range(f) == {f[i] : i \in DOMAIN f}

IsUpper(c) == \E i \in 1..26 : UpperCase[i] = c
IsLower(c) == \E i \in 1..26 : LowerCase[i] = c
IsCased(c) == IsUpper(c) \/ IsLower(c)

\* str.lower() on one character
lower(c) == IF IsUpper(c) THEN LowerCase[CHOOSE i \in 1..26 : UpperCase[i] = c] ELSE c
upper(c) == IF IsLower(c) THEN UpperCase[CHOOSE i \in 1..26 : LowerCase[i] = c] ELSE c

\* mutant of str_lower: the lower-casing step is left out
str_lower_missing(s) == s

\* Series.str.lower(): every character lower-cased
str_lower(s) == [i \in 1..Len(s) |-> lower(s[i])]

\* str.title(): a cased character is upper-cased when the previous character
\* is not cased, lower-cased otherwise
title(s) == [i \in 1..Len(s) |->
               IF i > 1 /\ IsCased(s[i-1]) THEN lower(s[i]) ELSE upper(s[i])]

\* str.strip(): drop leading and trailing whitespace
strip(s) ==
  LET keep == {i \in 1..Len(s) : s[i] \notin Whitespace}
  IN  IF keep = {} THEN <<>>
      ELSE SubSeq(s, CHOOSE i \in keep : \A j \in keep : i <= j,
                     CHOOSE i \in keep : \A j \in keep : i >= j)

\* str.replace(old, new) for one-character old and new
replace(s, old, new) == [i \in 1..Len(s) |-> IF s[i] = old THEN new ELSE s[i]]

\* str.split(sep): n separators give n+1 pieces, empty pieces included
RECURSIVE split(_, _)
split(s, sep) ==
  LET hits == {i \in 1..Len(s) : s[i] = sep}
  IN  IF hits = {} THEN <<s>>
      ELSE LET i == CHOOSE h \in hits : \A k \in hits : h <= k
           IN  <<SubSeq(s, 1, i-1)>> \o split(SubSeq(s, i+1, Len(s)), sep)

\* Series.str.contains(pat) for a pattern without regex metacharacters
contains(s, pat) ==
  \E i \in 1..(Len(s) - Len(pat) + 1) : SubSeq(s, i, i + Len(pat) - 1) = pat

\* ------------------------------------------------------------------ cells
NaN == [na |-> TRUE, s |-> <<>>]
Str(s) == [na |-> FALSE, s |-> s]

\* Series.fillna(v)
fillna(series, v) == [i \in 1..Len(series) |-> IF series[i].na THEN Str(v) ELSE series[i]]

\* Series.dropna()
RECURSIVE dropna(_)
dropna(series) ==
  IF series = <<>> THEN <<>>
  ELSE IF Head(series).na THEN dropna(Tail(series))
       ELSE <<Head(series)>> \o dropna(Tail(series))

\* Series.isin(values)
isin(series, values) == [i \in 1..Len(series) |-> series[i] \in values]

\* boolean Series.sum()
mask_sum(mask) == Cardinality({i \in 1..Len(mask) : mask[i]})

\* true division; den = 0 is the NaN/inf of a division by zero
Div(a, b) == [num |-> a, den |-> b]
Times(q, k) == [num |-> q.num * k, den |-> q.den]
Zero == [num |-> 0, den |-> 1]
IsNumber(q) == q.den # 0

\* the distinct non-missing values of a series
value_labels(series) == {series[i].s : i \in {j \in 1..Len(series) : ~series[j].na}}

\* Series.value_counts(): label -> number of rows holding exactly that label
\* (NaN dropped); the order among equal counts is not fixed by pandas and is
\* not represented
value_counts(series) ==
  [l \in value_labels(series) |->
     Cardinality({i \in 1..Len(series) : ~series[i].na /\ series[i].s = l})]

\* DataFrame.head(n) of a frequency table sorted by descending count
head(ft, n) ==
  IF Cardinality(DOMAIN ft) <= n THEN ft
  ELSE LET top == CHOOSE S \in SUBSET (DOMAIN ft) :
                    /\ Cardinality(S) = n
                    /\ \A a \in S : \A b \in (DOMAIN ft) \ S : ft[a] >= ft[b]
       IN  [l \in top |-> ft[l]]

\* --------------------------------------------------------- literal strings
kw_own_car == <<"o","w","n"," ","c","a","r">>
kw_personal == <<"p","e","r","s","o","n","a","l">>
kw_bike == <<"b","i","k","e">>
kw_yes == <<"y","e","s">>
kw_maybe == <<"m","a","y","b","e">>
kw_sometimes == <<"s","o","m","e","t","i","m","e","s">>
MissingLabel == <<"(","M","i","s","s","i","n","g",")">>

TravelMode == "Travel Mode"
CarpoolWillingness == "Carpool Willingness"
CabAvailabilityIssues == "Cab Availability Issues"
ReasonRideHailing == "Reason for not using Ola/Uber/Rapido frequently"
ReasonCarpooling == "Reason for not preferring carpooling"
Timestamp == "Timestamp"

ReportColumns == {TravelMode, CarpoolWillingness, CabAvailabilityIssues,
                  ReasonRideHailing, ReasonCarpooling}

\* ------------------------------------------------------------- input data
OwnCar == <<"O","w","n"," ","C","a","r">>
OlaUber == <<"O","l","a","/","U","b","e","r">>
Bike == <<"B","i","k","e">>
Motorbike == <<"M","o","t","o","r","b","i","k","e">>
Yes == <<"Y","e","s">>
No == <<"N","o">>
Maybe == <<"M","a","y","b","e">>
YesPadded == <<" ","Y","e","s"," ">>
Sometimes == <<"S","o","m","e","t","i","m","e","s">>
SometimesPadded == <<"s","o","m","e","t","i","m","e","s"," ">>
ExampleReason == <<"H","i","g","h"," ","C","o","s","t","/","S","a","f","e","t","y"," ",
                   "C","o","n","c","e","r","n","s",";"," ",
                   "I","n","c","o","n","v","e","n","i","e","n","t">>
HighCost == <<"H","i","g","h"," ","C","o","s","t">>
SafetyConcerns == <<"S","a","f","e","t","y"," ","C","o","n","c","e","r","n","s">>
Inconvenient == <<"I","n","c","o","n","v","e","n","i","e","n","t">>
r_cost == <<"c","o","s","t">>
r_blank == <<" "," ">>
r_messy == <<"s","a","f","e","t","y",","," ",",","N","O"," ","t","i","m","e",";">>
r_safety == <<"S","A","F","E","T","Y">>
r_time == <<"n","o"," ","t","i","m","e">>

Row(tm, cw, cab, r1, r2) ==
  (TravelMode :> tm) @@ (CarpoolWillingness :> cw) @@ (CabAvailabilityIssues :> cab)
  @@ (ReasonRideHailing :> r1) @@ (ReasonCarpooling :> r2) @@ (Timestamp :> Str(<<"t">>))

Row1 == Row(Str(OwnCar), Str(Yes), Str(No), Str(ExampleReason), Str(r_time))
Row2 == Row(Str(OlaUber), Str(No), Str(Yes), NaN, Str(r_messy))
Row3 == Row(Str(Bike), Str(Maybe), Str(Sometimes), Str(r_cost), NaN)
Row4 == Row(NaN, Str(kw_yes), NaN, Str(r_blank), Str(r_safety))
Row5 == Row(Str(Motorbike), Str(YesPadded), Str(SometimesPadded), Str(r_messy), Str(r_blank))

RowSet == {Row1, Row2, Row3, Row4, Row5}

TravelModeExample == <<Row1, Row2, Row3>>
CarpoolExample == <<Row1, Row2, Row3, Row4>>

BoundedSeq(S, n) == UNION {[1..k -> S] : k \in 0..n}

Tables == BoundedSeq(RowSet, MaxRows) \cup {TravelModeExample, CarpoolExample}

\* a header name as written in the file: the name, padded with blanks or not
RawName(name, pad) == [name |-> name, pad |-> pad]

Files ==
  {[exists |-> FALSE, parseable |-> FALSE, header |-> {}, rows |-> <<>>],
   [exists |-> TRUE, parseable |-> FALSE, header |-> {}, rows |-> <<>>]}
  \cup
  {[exists |-> TRUE, parseable |-> TRUE,
    header |-> {RawName(c, pad) : c \in present \cup {Timestamp}}, rows |-> t] :
     present \in SUBSET ReportColumns, pad \in 0..1, t \in Tables}

\* ------------------------------------------------------------------ state
VARIABLES
  fs,                    \* the file at CSV_PATH
  pc,                    \* position of the script
  err,                   \* the exception that ended the script, "" if none
  raisedIn,              \* chart section whose figure construction raised, 0 if none
  df,                    \* column name -> sequence of cells
  total_responses,
  private_mask, pct_private,
  open_to_carpool_mask, pct_open_carpool,
  cab_issue_mask, pct_cab_issues,
  mode_counts, ct_pct, pool_counts,
  reasons_list, reasons_df, reasons_carpool_list, reasons_carpool_df,
  calls,                 \* figure constructors called so far
  out                    \* elements emitted to the page so far

kpiVars == <<total_responses, private_mask, pct_private, open_to_carpool_mask,
             pct_open_carpool, cab_issue_mask, pct_cab_issues>>
chartVars == <<mode_counts, ct_pct, pool_counts,
               reasons_list, reasons_df, reasons_carpool_list, reasons_carpool_df>>
vars == <<fs, pc, err, raisedIn, df, kpiVars, chartVars, calls, out>>

Item(kind, id, data) == [kind |-> kind, id |-> id, data |-> data]
Text(id) == Item("text", id, <<>>)

Init ==
  /\ fs \in Files
  /\ pc = "load"
  /\ err = ""
  /\ raisedIn = 0
  /\ df = <<>>
  /\ total_responses = 0
  /\ private_mask = <<>> /\ pct_private = Zero
  /\ open_to_carpool_mask = <<>> /\ pct_open_carpool = Zero
  /\ cab_issue_mask = <<>> /\ pct_cab_issues = Zero
  /\ mode_counts = <<>> /\ ct_pct = <<>> /\ pool_counts = <<>>
  /\ reasons_list = <<>> /\ reasons_df = <<>>
  /\ reasons_carpool_list = <<>> /\ reasons_carpool_df = <<>>
  /\ calls = <<>>
  /\ out = <<>>

\* --------------------------------------------------------------- loading
\* pd.read_csv followed by df.columns.str.strip()
load_data(file) ==
  [c \in {h.name : h \in file.header} |-> [i \in 1..Len(file.rows) |-> file.rows[i][c]]]

len(frame) == Len(frame[CHOOSE c \in DOMAIN frame : TRUE])

Banner == <<Text("title"), Text("intro")>>

\* mutant of LoadFailed: the handler reports the error but does not stop
LoadFailedNoStop(kind) ==
  /\ out' = out \o Banner \o <<Item("error", kind, <<>>)>>
  /\ df' = [c \in ReportColumns |-> <<>>]
  /\ pc' = "kpis"
  /\ err' = ""

\* except ...: st.error(...); st.stop()
LoadFailed(kind) ==
  /\ out' = out \o Banner \o <<Item("error", kind, <<>>)>>
  /\ df' = df
  /\ pc' = "stopped"
  /\ err' = kind

LoadNotFound ==
  /\ pc = "load"
  /\ ~fs.exists
  /\ LoadFailed("NotFound")
  /\ UNCHANGED <<fs, raisedIn, kpiVars, chartVars, calls>>

LoadParseError ==
  /\ pc = "load"
  /\ fs.exists /\ ~fs.parseable
  /\ LoadFailed("ParseError")
  /\ UNCHANGED <<fs, raisedIn, kpiVars, chartVars, calls>>

Load ==
  /\ pc = "load"
  /\ fs.exists /\ fs.parseable
  /\ df' = load_data(fs)
  /\ out' = out \o Banner
  /\ pc' = "kpis"
  /\ UNCHANGED <<fs, err, raisedIn, kpiVars, chartVars, calls>>

\* ------------------------------------------------------------------ KPIs
\* mutant of Pct: the zero-row guard is left out
PctUnguarded(count, total) == Times(Div(count, total), 100)

\* (count / total * 100) if total else 0
Pct(count, total) == IF total # 0 THEN Times(Div(count, total), 100) ELSE Zero

\* df[col].fillna('').astype(str).str.lower()
match_normalized(col) ==
  LET filled == fillna(df[col], <<>>)
  IN  [i \in 1..Len(filled) |-> str_lower(filled[i].s)]

private_mask_of(col) ==
  LET travel_mode_lower == match_normalized(col)
  IN  [i \in 1..Len(travel_mode_lower) |->
         \/ contains(travel_mode_lower[i], kw_own_car)
         \/ contains(travel_mode_lower[i], kw_personal)
         \/ contains(travel_mode_lower[i], kw_bike)]

Has(col) == col \in DOMAIN df

KPIs ==
  /\ pc = "kpis"
  /\ Has(TravelMode) /\ Has(CarpoolWillingness) /\ Has(CabAvailabilityIssues)
  /\ total_responses' = len(df)
  /\ private_mask' = private_mask_of(TravelMode)
  /\ pct_private' = Pct(mask_sum(private_mask'), total_responses')
  /\ open_to_carpool_mask' = isin(match_normalized(CarpoolWillingness), {kw_yes, kw_maybe})
  /\ pct_open_carpool' = Pct(mask_sum(open_to_carpool_mask'), total_responses')
  /\ cab_issue_mask' = isin(match_normalized(CabAvailabilityIssues), {kw_yes, kw_sometimes})
  /\ pct_cab_issues' = Pct(mask_sum(cab_issue_mask'), total_responses')
  /\ out' = out \o <<Item("metric", "total_responses", total_responses'),
                     Item("metric", "pct_private", pct_private'),
                     Item("metric", "pct_open_carpool", pct_open_carpool'),
                     Item("metric", "pct_cab_issues", pct_cab_issues')>>
  /\ pc' = "chart1"
  /\ UNCHANGED <<fs, err, raisedIn, df, chartVars, calls>>

\* df[col] on an absent column raises KeyError, which nothing catches; the
\* assignments of the lines before the failing one have taken place
KPIsKeyError ==
  /\ pc = "kpis"
  /\ ~(Has(TravelMode) /\ Has(CarpoolWillingness) /\ Has(CabAvailabilityIssues))
  /\ total_responses' = len(df)
  /\ IF Has(TravelMode)
       THEN /\ private_mask' = private_mask_of(TravelMode)
            /\ pct_private' = Pct(mask_sum(private_mask'), total_responses')
       ELSE UNCHANGED <<private_mask, pct_private>>
  /\ IF Has(TravelMode) /\ Has(CarpoolWillingness)
       THEN /\ open_to_carpool_mask' =
                 isin(match_normalized(CarpoolWillingness), {kw_yes, kw_maybe})
            /\ pct_open_carpool' = Pct(mask_sum(open_to_carpool_mask'), total_responses')
       ELSE UNCHANGED <<open_to_carpool_mask, pct_open_carpool>>
  /\ UNCHANGED <<cab_issue_mask, pct_cab_issues>>
  /\ pc' = "crashed"
  /\ err' = "KeyError"
  /\ UNCHANGED <<fs, raisedIn, df, chartVars, calls, out>>

\* ---------------------------------------------------------------- charts
Chart(id, type, table) == Item("chart", id, [type |-> type, table |-> table])

\* an exception raised in a chart section outside any try block ends the script
Uncaught(k, emitted) ==
  /\ pc' = "crashed"
  /\ err' = "Exception"
  /\ raisedIn' = k
  /\ out' = out \o emitted

\* mutant of display_normalized: labels are folded to lower case for counting
display_normalized_folded(col) ==
  LET filled == fillna(df[col], MissingLabel)
  IN  [i \in 1..Len(filled) |-> Str(str_lower(filled[i].s))]

\* df[col].fillna('(Missing)')
display_normalized(col) == fillna(df[col], MissingLabel)

\* 1 Travel Mode Preferences
Chart1 ==
  /\ pc = "chart1"
  /\ Has(TravelMode)
  /\ mode_counts' = value_counts(display_normalized(TravelMode))
  /\ calls' = Append(calls, "px.pie")
  /\ \E raises \in BOOLEAN :
       IF raises
         THEN Uncaught(1, <<Text("subheader1")>>)
         ELSE /\ out' = out \o <<Text("subheader1"), Chart("fig1", "pie", mode_counts'),
                                 Text("insight1")>>
              /\ pc' = "chart2"
              /\ UNCHANGED <<err, raisedIn>>
  /\ UNCHANGED <<fs, df, kpiVars, ct_pct, pool_counts,
               reasons_list, reasons_df, reasons_carpool_list, reasons_carpool_df>>

RECURSIVE SumOver(_, _)
SumOver(f, S) ==
  IF S = {} THEN 0
  ELSE LET x == CHOOSE y \in S : TRUE IN f[x] + SumOver(f, S \ {x})

\* mutant of crosstab_index: the "(Missing)" row is always part of the index
crosstab_index_with_missing(series) == value_labels(series) \cup {MissingLabel}

\* the row labels of pd.crosstab: the values that occur in the first series
crosstab_index(series) == value_labels(series)

\* pd.crosstab(a, b): joint counts of the two series
crosstab(a, b) ==
  [r \in crosstab_index(a) |->
     [c \in value_labels(b) |->
        Cardinality({i \in 1..Len(a) : a[i].s = r /\ b[i].s = c})]]

\* ct.div(ct.sum(axis=1), axis=0) * 100
row_normalize(ct) ==
  [r \in DOMAIN ct |->
     LET row_sum == SumOver(ct[r], DOMAIN ct[r])
     IN  [c \in DOMAIN ct[r] |-> Times(Div(ct[r][c], row_sum), 100)]]

\* 2 Cab Availability Issues by Travel Mode
Chart2 ==
  /\ pc = "chart2"
  /\ Has(TravelMode) /\ Has(CabAvailabilityIssues)
  /\ ct_pct' = row_normalize(crosstab(display_normalized(TravelMode),
                                      display_normalized(CabAvailabilityIssues)))
  /\ calls' = Append(calls, "go.Figure")
  /\ \E raises \in BOOLEAN :
       IF raises
         THEN Uncaught(2, <<Text("subheader2")>>)
         ELSE /\ out' = out \o <<Text("subheader2"), Chart("fig2", "stacked_bar", ct_pct'),
                                 Text("insight2")>>
              /\ pc' = "chart3"
              /\ UNCHANGED <<err, raisedIn>>
  /\ UNCHANGED <<fs, df, kpiVars, mode_counts, pool_counts,
               reasons_list, reasons_df, reasons_carpool_list, reasons_carpool_df>>

\* 3 Carpool Willingness
Chart3 ==
  /\ pc = "chart3"
  /\ Has(CarpoolWillingness)
  /\ pool_counts' = value_counts(display_normalized(CarpoolWillingness))
  /\ calls' = Append(calls, "px.bar")
  /\ \E raises \in BOOLEAN :
       IF raises
         THEN Uncaught(3, <<Text("subheader3")>>)
         ELSE /\ out' = out \o <<Text("subheader3"), Chart("fig3", "bar", pool_counts'),
                                 Text("insight3")>>
              /\ pc' = "chart4"
              /\ UNCHANGED <<err, raisedIn>>
  /\ UNCHANGED <<fs, df, kpiVars, mode_counts, ct_pct,
               reasons_list, reasons_df, reasons_carpool_list, reasons_carpool_df>>

\* mutant of parts_of: empty pieces are kept
parts_of_keep_empty(item) ==
  LET pieces == split(replace(replace(item, "/", ","), ";", ","), ",")
  IN  [i \in 1..Len(pieces) |-> strip(pieces[i])]

\* item.replace('/', ',').replace(';', ','), then
\* [p.strip() for p in item.split(',') if p.strip()]
parts_of(item) ==
  LET pieces == split(replace(replace(item, "/", ","), ";", ","), ",")
      kept == SelectSeq(pieces, LAMBDA p : strip(p) # <<>>)
  IN  [i \in 1..Len(kept) |-> strip(kept[i])]

RECURSIVE extend_all(_)
extend_all(items) ==
  IF items = <<>> THEN <<>>
  ELSE parts_of(Head(items).s) \o extend_all(Tail(items))

split_reasons(texts) == extend_all(dropna(texts))

\* df.get(col), and split_reasons(series) if series is not None else []
reasons_of(col) == IF Has(col) THEN split_reasons(df[col]) ELSE <<>>

\* pd.Series([r.title() for r in reasons], name='reason')
titled(reasons) == [i \in 1..Len(reasons) |-> Str(title(reasons[i]))]

\* 4 Reasons for Not Using Ola/Uber/Rapido Frequently
Chart4 ==
  /\ pc = "chart4"
  /\ reasons_list' = reasons_of(ReasonRideHailing)
  /\ reasons_df' = value_counts(titled(reasons_list'))
  /\ IF reasons_df' # <<>>
       THEN /\ calls' = Append(calls, "px.bar")
            /\ \E raises \in BOOLEAN :
                 IF raises
                   THEN Uncaught(4, <<Text("subheader4")>>)
                   ELSE /\ out' = out \o <<Text("subheader4"),
                                           Chart("fig4", "bar", head(reasons_df', 15)),
                                           Text("insight4")>>
                        /\ pc' = "chart5"
                        /\ UNCHANGED <<err, raisedIn>>
       ELSE /\ out' = out \o <<Text("subheader4"), Item("info", "no_reasons_ride_hailing", <<>>),
                               Text("insight4")>>
            /\ pc' = "chart5"
            /\ UNCHANGED <<err, raisedIn, calls>>
  /\ UNCHANGED <<fs, df, kpiVars, mode_counts, ct_pct, pool_counts,
               reasons_carpool_list, reasons_carpool_df>>

\* pd.to_numeric(count, errors='coerce').fillna(0).astype(int)
to_int_counts(ft) == [l \in DOMAIN ft |-> IF ft[l] \in Int THEN ft[l] ELSE 0]

\* mutant of wants_treemap: a single label already selects the treemap
wants_treemap_from_one(ft) == Cardinality(DOMAIN ft) >= 1

\* reasons_carpool_df['reason'].nunique() >= 2
wants_treemap(ft) == Cardinality(DOMAIN ft) >= 2

\* 5 Reasons for Not Preferring Carpooling.  The figure built inside the try
\* block may raise; the handler then builds the bar chart.
Chart5 ==
  /\ pc = "chart5"
  /\ reasons_carpool_list' = reasons_of(ReasonCarpooling)
  /\ LET counted == value_counts(titled(reasons_carpool_list'))
     IN  IF counted # <<>>
           THEN /\ reasons_carpool_df' = to_int_counts(counted)
                /\ \E raises \in BOOLEAN :
                     LET first == IF wants_treemap(reasons_carpool_df')
                                    THEN "px.treemap" ELSE "px.bar"
                         shown == head(reasons_carpool_df', 50)
                     IN  IF raises
                           THEN /\ calls' = calls \o <<first, "px.bar">>
                                /\ raisedIn' = 5
                                /\ out' = out \o <<Text("subheader5"),
                                                   Chart("fig5", "bar", shown),
                                                   Text("insight5")>>
                           ELSE /\ calls' = Append(calls, first)
                                /\ raisedIn' = raisedIn
                                /\ out' = out \o
                                     <<Text("subheader5"),
                                       Chart("fig5", IF first = "px.treemap"
                                                       THEN "treemap" ELSE "bar", shown),
                                       Text("insight5")>>
           ELSE /\ reasons_carpool_df' = counted
                /\ out' = out \o <<Text("subheader5"), Item("info", "no_reasons_carpool", <<>>),
                                   Text("insight5")>>
                /\ UNCHANGED <<raisedIn, calls>>
  /\ pc' = "done"
  /\ UNCHANGED <<fs, err, df, kpiVars, mode_counts, ct_pct, pool_counts, reasons_list, reasons_df>>

Next ==
  \/ LoadNotFound \/ LoadParseError \/ Load
  \/ KPIs \/ KPIsKeyError
  \/ Chart1 \/ Chart2 \/ Chart3 \/ Chart4 \/ Chart5

Spec == Init /\ [][Next]_vars

\* ------------------------------------------------------------ properties
Emitted(kind, id) == \E i \in 1..Len(out) : out[i].kind = kind /\ out[i].id = id
Called(f) == \E i \in 1..Len(calls) : calls[i] = f
Loaded == pc # "load" /\ fs.exists /\ fs.parseable
KpisDone == Emitted("metric", "total_responses")
RanThrough(k) ==
  \/ pc \in {n \in {"chart2", "chart3", "chart4", "chart5", "done"} :
               \/ n = "done"
               \/ (k <= 1 /\ n = "chart2") \/ (k <= 2 /\ n = "chart3")
               \/ (k <= 3 /\ n = "chart4") \/ (k <= 4 /\ n = "chart5")}
  \/ (pc = "crashed" /\ raisedIn >= k)
RawCell(i, col) == fs.rows[i][col]
Percentages == <<pct_private, pct_open_carpool, pct_cab_issues>>
Masks == <<private_mask, open_to_carpool_mask, cab_issue_mask>>

\* C1: when load_data raises (the file is absent or cannot be parsed) the
\* script shows an error message and stops: no metric and no chart is
\* computed or emitted in any later state.
C1_LoadFailureEmitsNothing ==
  (pc # "load" /\ ~(fs.exists /\ fs.parseable)) =>
     /\ pc = "stopped"
     /\ Emitted("error", IF fs.exists THEN "ParseError" ELSE "NotFound")
     /\ \A i \in 1..Len(out) : out[i].kind \notin {"metric", "chart", "info"}
     /\ calls = <<>>
     /\ total_responses = 0 /\ Masks = <<<<>>, <<>>, <<>>>>
     /\ Percentages = <<Zero, Zero, Zero>>

C1_Witness ==
  pc = "stopped" /\ fs.exists /\ ~fs.parseable /\ Emitted("error", "ParseError")

\* C2: a column of the report that is absent from the loaded table raises no
\* error (the statement as claimed; the subscript df[col] raises KeyError).
C2_AbsentColumnRaisesNoError ==
  \A c \in ReportColumns : (Loaded /\ ~Has(c)) => err # "KeyError"

\* C3: a failure inside chart section k does not prevent the sections after
\* it: once the script has ended, every later section has been emitted (the
\* statement as claimed; sections 1 to 4 have no handler).
SectionEmitted(j) ==
  CASE j = 1 -> Emitted("chart", "fig1")
    [] j = 2 -> Emitted("chart", "fig2")
    [] j = 3 -> Emitted("chart", "fig3")
    [] j = 4 -> Emitted("chart", "fig4") \/ Emitted("info", "no_reasons_ride_hailing")
    [] j = 5 -> Emitted("chart", "fig5") \/ Emitted("info", "no_reasons_carpool")

C3_LaterChartsStillEmitted ==
  \A k \in 1..5 :
     (raisedIn = k /\ pc \in {"done", "crashed"}) =>
        \A j \in (k+1)..5 : SectionEmitted(j)

\* C4: each emitted percentage is (true mask entries / row count) * 100, is a
\* number in [0,100], and is 0 for a table of zero rows.
C4_PercentagesWellDefined ==
  KpisDone =>
     /\ total_responses = Len(fs.rows)
     /\ \A m \in 1..3 :
          LET q == Percentages[m]
              count == Cardinality({i \in 1..Len(Masks[m]) : Masks[m][i]})
          IN  /\ Len(Masks[m]) = total_responses
              /\ IsNumber(q) /\ q.den > 0
              /\ q.num * total_responses = 100 * count * q.den
              /\ 0 <= q.num /\ q.num <= 100 * q.den
              /\ total_responses = 0 => q.num = 0

C4_Witness ==
  KpisDone /\ total_responses = 0 /\ Percentages = <<Zero, Zero, Zero>>

\* C5: the private-vehicle mask has one entry per row, true exactly when the
\* lower-cased travel mode (missing read as empty) contains "own car",
\* "personal" or "bike"; Own Car, Ola/Uber, Bike give [true,false,true], 200/3.
HasPrivateKeyword(cell) ==
  /\ ~cell.na
  /\ \E kw \in {kw_own_car, kw_personal, kw_bike} :
       \E off \in 0..(Len(cell.s) - Len(kw)) :
          \A j \in 1..Len(kw) : lower(cell.s[off + j]) = kw[j]

C5_PrivateVehicleMask ==
  (Loaded /\ pc # "kpis" /\ Has(TravelMode)) =>
     /\ Len(private_mask) = Len(fs.rows)
     /\ \A i \in 1..Len(fs.rows) :
          private_mask[i] <=> HasPrivateKeyword(RawCell(i, TravelMode))
     /\ (fs.rows = TravelModeExample) =>
          /\ private_mask = <<TRUE, FALSE, TRUE>>
          /\ pct_private.num * 3 = 200 * pct_private.den

C5_Witness ==
  /\ KpisDone /\ fs.rows = TravelModeExample
  /\ private_mask = <<TRUE, FALSE, TRUE>>
  /\ pct_private = [num |-> 200, den |-> 3]

\* C6: the open-to-carpool and cab-issue masks are true exactly when the
\* lower-cased and whitespace-trimmed cell is one of the allowed values (the
\* statement as claimed; the script lower-cases but does not trim).
AllowedAfterTrim(cell, allowed) == ~cell.na /\ strip(str_lower(cell.s)) \in allowed

C6_MasksMatchTrimmedValue ==
  KpisDone =>
     \A i \in 1..Len(fs.rows) :
        /\ open_to_carpool_mask[i] <=>
             AllowedAfterTrim(RawCell(i, CarpoolWillingness), {kw_yes, kw_maybe})
        /\ cab_issue_mask[i] <=>
             AllowedAfterTrim(RawCell(i, CabAvailabilityIssues), {kw_yes, kw_sometimes})

\* C7 as claimed: the carpool-willingness frequency table groups values that
\* differ only by letter case under one label; Yes, No, Maybe, yes give
\* {Yes:2, No:1, Maybe:1} and an open-to-carpool percentage of 75.
C7_CaseInsensitiveGrouping ==
  RanThrough(3) =>
     /\ \A a \in DOMAIN pool_counts : \A b \in DOMAIN pool_counts :
          str_lower(a) = str_lower(b) => a = b
     /\ (fs.rows = CarpoolExample) =>
          /\ pool_counts = (Yes :> 2) @@ (No :> 1) @@ (Maybe :> 1)
          /\ pct_open_carpool.num = 75 * pct_open_carpool.den

\* C7 as amended: the table counts exact values (missing under "(Missing)"),
\* a label per distinct spelling, every row counted once; Yes, No, Maybe, yes
\* give {Yes:1, No:1, Maybe:1, yes:1} and an open-to-carpool percentage of 75.
DisplayValue(cell) == IF cell.na THEN MissingLabel ELSE cell.s

C7_ExactValueGrouping ==
  RanThrough(3) =>
     /\ DOMAIN pool_counts = {DisplayValue(RawCell(i, CarpoolWillingness)) : i \in 1..Len(fs.rows)}
     /\ \A l \in DOMAIN pool_counts :
          pool_counts[l] = Cardinality({i \in 1..Len(fs.rows) :
                                          DisplayValue(RawCell(i, CarpoolWillingness)) = l})
     /\ SumOver(pool_counts, DOMAIN pool_counts) = Len(fs.rows)
     /\ (fs.rows = CarpoolExample) =>
          /\ pool_counts = (Yes :> 1) @@ (No :> 1) @@ (Maybe :> 1) @@ (kw_yes :> 1)
          /\ pct_open_carpool.num = 75 * pct_open_carpool.den

C7_Witness ==
  /\ pc = "chart4" /\ fs.rows = CarpoolExample
  /\ Cardinality(DOMAIN pool_counts) = 4
  /\ pct_open_carpool = [num |-> 300, den |-> 4]

\* C8: in the row-normalized cross-tabulation every row has at least one
\* observation and percentages summing to 100, and no cell is NaN or the
\* result of a division by zero.
C8_RowsSumToHundred ==
  RanThrough(2) =>
     /\ DOMAIN ct_pct = {DisplayValue(RawCell(i, TravelMode)) : i \in 1..Len(fs.rows)}
     /\ \A r \in DOMAIN ct_pct :
          LET observed == Cardinality({i \in 1..Len(fs.rows) :
                                         DisplayValue(RawCell(i, TravelMode)) = r})
              nums == [c \in DOMAIN ct_pct[r] |-> ct_pct[r][c].num]
          IN  /\ observed >= 1
              /\ DOMAIN ct_pct[r] =
                   {DisplayValue(RawCell(i, CabAvailabilityIssues)) : i \in 1..Len(fs.rows)}
              /\ \A c \in DOMAIN ct_pct[r] :
                   /\ IsNumber(ct_pct[r][c])
                   /\ ct_pct[r][c].den = observed
                   /\ ct_pct[r][c].num >= 0
              /\ SumOver(nums, DOMAIN nums) = 100 * observed

C8_Witness ==
  /\ pc = "chart3"
  /\ MissingLabel \in DOMAIN ct_pct /\ OwnCar \in DOMAIN ct_pct
  /\ ct_pct[OwnCar][No] = [num |-> 100, den |-> 1]
  /\ ct_pct[OwnCar][MissingLabel] = [num |-> 0, den |-> 1]

\* C9: the reason tokens are, in row order and then split order, the pieces
\* of every non-missing cell cut at ',', '/' and ';', trimmed, the empty ones
\* discarded, each title-cased; none is empty or starts or ends with
\* whitespace; the example cell gives High Cost, Safety Concerns, Inconvenient.
Delimiters == {",", "/", ";"}

PiecesOf(s) ==
  LET cuts == {0, Len(s) + 1} \cup {i \in 1..Len(s) : s[i] \in Delimiters}
      nth(k) == CHOOSE d \in cuts : Cardinality({e \in cuts : e < d}) = k - 1
  IN  [k \in 1..(Cardinality(cuts) - 1) |-> SubSeq(s, nth(k) + 1, nth(k + 1) - 1)]

RECURSIVE Flatten(_)
Flatten(ss) == IF ss = <<>> THEN <<>> ELSE Head(ss) \o Flatten(Tail(ss))

ExpectedTokens(col) ==
  IF ~Has(col) THEN <<>>
  ELSE Flatten([i \in 1..Len(fs.rows) |->
         IF RawCell(i, col).na THEN <<>>
         ELSE LET trimmed == [k \in DOMAIN PiecesOf(RawCell(i, col).s) |->
                                strip(PiecesOf(RawCell(i, col).s)[k])]
                  kept == SelectSeq(trimmed, LAMBDA p : Len(p) > 0)
              IN  [k \in 1..Len(kept) |-> title(kept[k])]])

CleanToken(t) ==
  /\ Len(t) > 0
  /\ t[1] \notin Whitespace /\ t[Len(t)] \notin Whitespace
  /\ \A i \in 1..Len(t) : t[i] \notin Delimiters

TokensAsClaimed(list, counts, col) ==
  LET tokens == [i \in 1..Len(list) |-> title(list[i])]
  IN  /\ tokens = ExpectedTokens(col)
      /\ \A i \in 1..Len(tokens) : CleanToken(tokens[i])
      /\ DOMAIN counts = Range(tokens)
      /\ \A l \in DOMAIN counts :
           counts[l] = Cardinality({i \in 1..Len(tokens) : tokens[i] = l})

C9_ReasonTokens ==
  /\ RanThrough(4) => TokensAsClaimed(reasons_list, reasons_df, ReasonRideHailing)
  /\ pc = "done" => TokensAsClaimed(reasons_carpool_list, reasons_carpool_df, ReasonCarpooling)
  /\ (RanThrough(4) /\ Has(ReasonRideHailing) /\ fs.rows = <<Row1>>) =>
        [i \in 1..Len(reasons_list) |-> title(reasons_list[i])]
          = <<HighCost, SafetyConcerns, Inconvenient>>

C9_Witness ==
  /\ pc = "chart5" /\ Has(ReasonRideHailing) /\ fs.rows = <<Row1>>
  /\ reasons_list = <<HighCost, SafetyConcerns, Inconvenient>>
  /\ reasons_df = (HighCost :> 1) @@ (SafetyConcerns :> 1) @@ (Inconvenient :> 1)

\* C10: section 5 emits exactly one outcome and never ends the script: the
\* treemap is attempted iff there are at least 2 distinct labels; a bar chart
\* is emitted for exactly 1 label or when the treemap attempt raises; with no
\* token (or no source column) only the notice is shown.
Fig5(type) ==
  \E i \in 1..Len(out) :
     out[i].kind = "chart" /\ out[i].id = "fig5" /\ out[i].data.type = type

C10_ReasonsAgainstCarpooling ==
  /\ Emitted("text", "subheader5") => pc = "done"
  /\ pc = "done" =>
       LET labels == Cardinality(Range(ExpectedTokens(ReasonCarpooling)))
       IN  /\ Cardinality({i \in 1..Len(out) :
                             \/ (out[i].kind = "chart" /\ out[i].id = "fig5")
                             \/ (out[i].kind = "info" /\ out[i].id = "no_reasons_carpool")}) = 1
           /\ Called("px.treemap") <=> labels >= 2
           /\ Fig5("treemap") <=> (labels >= 2 /\ raisedIn # 5)
           /\ Fig5("bar") <=> (labels = 1 \/ (labels >= 2 /\ raisedIn = 5))
           /\ Emitted("info", "no_reasons_carpool") <=> labels = 0
           /\ ~Has(ReasonCarpooling) => labels = 0

C10_Witness ==
  /\ pc = "done" /\ raisedIn = 5
  /\ Called("px.treemap") /\ Fig5("bar") /\ ~Fig5("treemap")
  /\ Cardinality(DOMAIN reasons_carpool_df) >= 2
====
